---------------------------- MODULE Spec2Model ----------------------------
(***************************************************************************)
(* Model of the 16x2 HD44780 driver alcd.c (4-bit transport) together with *)
(* the protocol constants of alcd.h.                                       *)
(*                                                                         *)
(* The driver state is the three globals of alcd.c.  The GPIO lines are    *)
(* the levels last written with HAL_GPIO_WritePin.  Every public function  *)
(* is one action; its body is an operator that threads a record            *)
(*   [init, x, y, pins, tr, bus, calls]                                    *)
(* through the statements of the C function in program order.  tr is the   *)
(* list of GPIO writes, delays and stores to the globals the call has      *)
(* made, bus is the list of nibbles the display has latched (one per       *)
(* falling edge of EN), calls is the list of driver functions entered, in  *)
(* order, with their arguments.                                            *)
(* Runs of GPIO writes and delays are handed to Drive as statement lists.  *)
(*                                                                         *)
(* Spec is the driver under serialised calls of its nine public functions. *)
(* SpecGlyph calls alcd_customChar over the whole range of its slot        *)
(* argument, SpecLcd adds the address counter of the display controller,   *)
(* and SpecIrq lets an interrupt handler run between the two enable pulses *)
(* of alcd_write.                                                          *)
(***************************************************************************)
EXTENDS Naturals, Sequences, FiniteSets

VARIABLES
    __alcd_initStatus,   \* bool   __alcd_initStatus
    __alcd_x_position,   \* uint8  __alcd_x_position
    __alcd_y_position,   \* uint8  __alcd_y_position
    pins,                \* level of every GPIO line the driver drives
    trace,               \* GPIO writes, delays and stores of the last public call
    bus,                 \* nibbles latched by the display during that call
    calls,               \* driver functions entered during that call, in order
    call,                \* the last public call: its name, its arguments, and
                         \* the globals and the EN level it was entered with
    lcd                  \* the display controller's address counter, followed
                         \* by the calls of SpecLcd only

vars == << __alcd_initStatus, __alcd_x_position, __alcd_y_position,
           pins, trace, bus, calls, call, lcd >>

---------------------------------------------------------------------------
(* Protocol constants, alcd.h *)

__alcd_writeCmd == 0
__alcd_writeData == 1
__alcd_max_x == 16
__alcd_max_y == 2
__alcd_delay_CMD == 50
__alcd_delay_modeSet == 5000
__alcd_delay_powerON == 50000
__alcd_Mode_4bit_2line_5x8 == 40
__alcd_Mode_4bit_Step1 == 51
__alcd_Mode_4bit_Step2 == 50
__alcd_Display_Clear == 1
__alcd_Display_OFF == 8
__alcd_Display_ON == 12
__alcd_Cursor_OFF == 12
__alcd_Entry_Inc == 6
__alcd_Line1_Start == 128
__alcd_Line2_Start == 192
__alcd_CGRAM_Start == 64

GPIO_PIN_RESET == 0
GPIO_PIN_SET == 1

\* uint8_t arithmetic wraps modulo 2^8
U8 == 256
ToU8(n) == n % U8

\* bool -> GPIO_PinState / bit value
BoolBit(b) == IF b THEN 1 ELSE 0

---------------------------------------------------------------------------
(* Bounds of the model *)

\* alcd_gotoxy is called with columns 0..MaxColArg and with 255
MaxColArg == 16
\* alcd_gotoxy is called with rows 0..MaxRowArg and with 255
MaxRowArg == 2
\* alcd_puts is called with strings of at most MaxStrLen characters
MaxStrLen == 2
\* alcd_customChar is called with slots 0..MaxSlot
MaxSlot == 2
\* in SpecGlyph alcd_customChar is called with slots 0..GlyphMaxSlot
GlyphMaxSlot == 40

\* (column, row) arguments of alcd_gotoxy: a grid that contains the whole
\* display and its first out-of-range column and row, and the largest uint8_t
GotoArgs == ((0 .. MaxColArg) \X (0 .. MaxRowArg))
            \cup { <<U8 - 1, 0>>, <<U8 - 1, 1>>, <<0, U8 - 1>>,
                   <<15, U8 - 1>>, <<U8 - 1, U8 - 1>> }
\* characters printed: 'A', 'z', and 0xFF
Chars == {65, 122, 255}
\* bytes handed directly to alcd_write
WriteBytes == {0, 90, 165, 255}
\* glyph patterns (8 rows each)
Patterns == { <<14, 17, 17, 17, 14, 0, 31, 21>> }
SlotArgs == (0 .. MaxSlot) \cup {7, 8, 31, U8 - 1}
\* SpecGlyph: every slot of the CGRAM, the slots behind it over more than one
\* period of the 8-bit address, and the largest uint8_t
GlyphSlots == (0 .. GlyphMaxSlot) \cup {U8 - 1}
GlyphPatterns == Patterns \cup { <<255, 0, 1, 2, 4, 8, 16, 32>> }

RECURSIVE StrOfLen(_)
StrOfLen(n) ==
    IF n = 0 THEN { <<>> }
    ELSE { Append(s, c) : s \in StrOfLen(n - 1), c \in Chars \ {U8 - 1} }
\* C strings: the characters followed by the terminator '\0'
Strings == { Append(s, 0) : s \in UNION { StrOfLen(n) : n \in 0 .. MaxStrLen } }

PinNames == {"RS", "EN", "DB4", "DB5", "DB6", "DB7", "BL"}

---------------------------------------------------------------------------
(* Collaborators: GPIO write, delay, bit macros *)

bitCheck(v, n) == (v \div (2 ^ n)) % 2

bitChange(v, n, b) ==
    IF b THEN (IF bitCheck(v, n) = 1 THEN v ELSE v + 2 ^ n)
         ELSE (IF bitCheck(v, n) = 1 THEN v - 2 ^ n ELSE v)

\* HAL_GPIO_WritePin(port, pin, level): the statement that drives one line
HAL_GPIO_WritePin(pin, level) == [op |-> "pin", pin |-> pin, v |-> level]

\* __alcd_delay(us) = delay_us(us): the statement that busy-waits
delay_us(us) == [op |-> "delay", pin |-> "-", v |-> us]

\* Execute one statement on the hardware: it is appended to the call's trace,
\* a pin write sets the level of its line, and a falling edge of EN makes the
\* display latch RS and DB7..DB4 as they stand at that moment.
Exec(s, st) ==
    LET fall == st.op = "pin" /\ st.pin = "EN" /\ s.pins["EN"] = 1 /\ st.v = 0
        nibble == 8 * s.pins["DB7"] + 4 * s.pins["DB6"]
                  + 2 * s.pins["DB5"] + s.pins["DB4"]
    IN  [s EXCEPT !.pins = IF st.op = "pin" THEN [@ EXCEPT ![st.pin] = st.v] ELSE @,
                  !.tr = Append(@, st),
                  !.bus = IF fall
                          THEN Append(@, [rs |-> s.pins["RS"], nib |-> nibble])
                          ELSE @]

RECURSIVE DriveFrom(_, _, _)
DriveFrom(s, stmts, i) ==
    IF i > Len(stmts) THEN s ELSE DriveFrom(Exec(s, stmts[i]), stmts, i + 1)

\* C runs statements in sequence: the state a statement starts from is
\* complete before the statement runs.  Ready(s) is always true; reading the
\* state in a guard makes the evaluation follow program order.
Ready(s) == Len(s.tr) >= 0

\* Run a straight-line list of GPIO/delay statements in program order
Drive(s, stmts) ==
    IF Ready(s) THEN DriveFrom(s, stmts, 1) ELSE s

\* Assignment to one of the three globals ("init", "x", "y"): the global
\* takes the value and the store is appended to the call's trace
Store(s, var, val) ==
    [s EXCEPT ![var] = val,
              !.tr = Append(@, [op |-> "store", pin |-> var,
                                v |-> IF var = "init" THEN BoolBit(val) ELSE val])]

\* Entry of a driver function
Called(s, fn, args) ==
    [s EXCEPT !.calls = Append(@, [fn |-> fn, args |-> args])]

---------------------------------------------------------------------------
(* alcd_write, alcd.c 238-280 *)

\* variant: the short delay is used whatever the init flag says
alcd_pulseDelay_alwaysShort(s) ==
    delay_us(__alcd_delay_CMD)

\* the delay statement between the rising and the falling edge of EN
alcd_pulseDelay(s) ==
    IF s.init = FALSE
    THEN delay_us(__alcd_delay_modeSet)
    ELSE delay_us(__alcd_delay_CMD)

\* variant: EN is raised before DB7 is driven
alcd_write_high_enEarly(s, _data, _alcd_cmdData) ==
    Drive(s, << HAL_GPIO_WritePin("RS", _alcd_cmdData),
                HAL_GPIO_WritePin("DB4", bitCheck(_data, 4)),
                HAL_GPIO_WritePin("DB5", bitCheck(_data, 5)),
                HAL_GPIO_WritePin("DB6", bitCheck(_data, 6)),
                HAL_GPIO_WritePin("EN", GPIO_PIN_SET),
                HAL_GPIO_WritePin("DB7", bitCheck(_data, 7)),
                alcd_pulseDelay(s),
                HAL_GPIO_WritePin("EN", GPIO_PIN_RESET) >>)

\* RS, high nibble, first enable pulse (alcd.c 241-259)
alcd_write_high(s, _data, _alcd_cmdData) ==
    Drive(s, << HAL_GPIO_WritePin("RS", _alcd_cmdData),
                HAL_GPIO_WritePin("DB4", bitCheck(_data, 4)),
                HAL_GPIO_WritePin("DB5", bitCheck(_data, 5)),
                HAL_GPIO_WritePin("DB6", bitCheck(_data, 6)),
                HAL_GPIO_WritePin("DB7", bitCheck(_data, 7)),
                HAL_GPIO_WritePin("EN", GPIO_PIN_SET),
                alcd_pulseDelay(s),
                HAL_GPIO_WritePin("EN", GPIO_PIN_RESET) >>)

\* variant: DB7 is given bit 2 a second time instead of bit 3
alcd_write_low_bit2Twice(s, _data) ==
    Drive(s, << HAL_GPIO_WritePin("DB4", bitCheck(_data, 0)),
                HAL_GPIO_WritePin("DB5", bitCheck(_data, 1)),
                HAL_GPIO_WritePin("DB6", bitCheck(_data, 2)),
                HAL_GPIO_WritePin("DB7", bitCheck(_data, 2)),
                HAL_GPIO_WritePin("EN", GPIO_PIN_SET),
                alcd_pulseDelay(s),
                HAL_GPIO_WritePin("EN", GPIO_PIN_RESET) >>)

\* low nibble, second enable pulse (alcd.c 263-278)
alcd_write_low(s, _data) ==
    Drive(s, << HAL_GPIO_WritePin("DB4", bitCheck(_data, 0)),
                HAL_GPIO_WritePin("DB5", bitCheck(_data, 1)),
                HAL_GPIO_WritePin("DB6", bitCheck(_data, 2)),
                HAL_GPIO_WritePin("DB7", bitCheck(_data, 3)),
                HAL_GPIO_WritePin("EN", GPIO_PIN_SET),
                alcd_pulseDelay(s),
                HAL_GPIO_WritePin("EN", GPIO_PIN_RESET) >>)

\* variant: the second pulse repeats the high nibble
alcd_write_highTwice(s, _data, _alcd_cmdData) ==
    LET s0 == Called(s, "alcd_write", <<_data, _alcd_cmdData>>)
    IN  alcd_write_low(alcd_write_high(s0, _data, _alcd_cmdData), _data \div 16)

alcd_write(s, _data, _alcd_cmdData) ==
    LET s0 == Called(s, "alcd_write", <<_data, _alcd_cmdData>>)
    IN  alcd_write_low(alcd_write_high(s0, _data, _alcd_cmdData), _data)

---------------------------------------------------------------------------
(* alcd_gotoxy, alcd.c 153-174 *)

\* variant: the bounds test is written with > instead of >=
alcd_gotoxy_gt(s, _alcd_x, _alcd_y) ==
    LET s0 == Called(s, "alcd_gotoxy", <<_alcd_x, _alcd_y>>)
        s1 == IF _alcd_x > __alcd_max_x \/ _alcd_y > __alcd_max_y
              THEN Store(Store(s0, "x", 0), "y", 0)
              ELSE Store(Store(s0, "x", _alcd_x), "y", _alcd_y)
        base == IF s1.y = 0 THEN __alcd_Line1_Start ELSE __alcd_Line2_Start
        _address == ToU8(base + s1.x)
    IN  alcd_write(s1, _address, __alcd_writeCmd)

\* variant: the two line bases are exchanged
alcd_gotoxy_swappedLines(s, _alcd_x, _alcd_y) ==
    LET s0 == Called(s, "alcd_gotoxy", <<_alcd_x, _alcd_y>>)
        s1 == IF _alcd_x >= __alcd_max_x \/ _alcd_y >= __alcd_max_y
              THEN Store(Store(s0, "x", 0), "y", 0)
              ELSE Store(Store(s0, "x", _alcd_x), "y", _alcd_y)
        base == IF s1.y = 0 THEN __alcd_Line2_Start ELSE __alcd_Line1_Start
        _address == ToU8(base + s1.x)
    IN  alcd_write(s1, _address, __alcd_writeCmd)

\* variant: the bounds test joins its two halves with && instead of ||
alcd_gotoxy_andClamp(s, _alcd_x, _alcd_y) ==
    LET s0 == Called(s, "alcd_gotoxy", <<_alcd_x, _alcd_y>>)
        s1 == IF _alcd_x >= __alcd_max_x /\ _alcd_y >= __alcd_max_y
              THEN Store(Store(s0, "x", 0), "y", 0)
              ELSE Store(Store(s0, "x", _alcd_x), "y", _alcd_y)
        base == IF s1.y = 0 THEN __alcd_Line1_Start ELSE __alcd_Line2_Start
        _address == ToU8(base + s1.x)
    IN  alcd_write(s1, _address, __alcd_writeCmd)

alcd_gotoxy(s, _alcd_x, _alcd_y) ==
    LET s0 == Called(s, "alcd_gotoxy", <<_alcd_x, _alcd_y>>)
        s1 == IF _alcd_x >= __alcd_max_x \/ _alcd_y >= __alcd_max_y
              THEN Store(Store(s0, "x", 0), "y", 0)
              ELSE Store(Store(s0, "x", _alcd_x), "y", _alcd_y)
        base == IF s1.y = 0 THEN __alcd_Line1_Start ELSE __alcd_Line2_Start
        _address == ToU8(base + s1.x)
    IN  alcd_write(s1, _address, __alcd_writeCmd)

---------------------------------------------------------------------------
(* alcd_clear, alcd.c 132-138 *)

\* variant: only the column is reset
alcd_clear_keepRow(s) ==
    LET s0 == Called(s, "alcd_clear", << >>)
        s1 == alcd_write(s0, __alcd_Display_Clear, __alcd_writeCmd)
        s2 == Store(s1, "x", 0)
    IN  Drive(s2, << delay_us(__alcd_delay_modeSet) >>)

\* variant: the cursor is reset before the command is sent
alcd_clear_resetFirst(s) ==
    LET s0 == Called(s, "alcd_clear", << >>)
        s1 == Store(Store(s0, "x", 0), "y", 0)
        s2 == alcd_write(s1, __alcd_Display_Clear, __alcd_writeCmd)
    IN  Drive(s2, << delay_us(__alcd_delay_modeSet) >>)

alcd_clear(s) ==
    LET s0 == Called(s, "alcd_clear", << >>)
        s1 == alcd_write(s0, __alcd_Display_Clear, __alcd_writeCmd)
        s2 == Store(Store(s1, "x", 0), "y", 0)
    IN  Drive(s2, << delay_us(__alcd_delay_modeSet) >>)

---------------------------------------------------------------------------
(* alcd_putc, alcd.c 206-218 *)

\* variant: the end-of-line test is written with > instead of >=
alcd_putc_gt(s, _char) ==
    LET s0 == Called(s, "alcd_putc", <<_char>>)
        s1 == alcd_write(s0, ToU8(_char), __alcd_writeData)
        s2 == Store(s1, "x", ToU8(s1.x + 1))
    IN  IF s2.x > __alcd_max_x
        THEN LET s3 == Store(Store(s2, "x", 0), "y", ToU8(s2.y + 1))
             IN  alcd_gotoxy(s3, s3.x, s3.y)
        ELSE s2

\* variant: the row wraps to 0 in alcd_putc itself
alcd_putc_rowWrap(s, _char) ==
    LET s0 == Called(s, "alcd_putc", <<_char>>)
        s1 == alcd_write(s0, ToU8(_char), __alcd_writeData)
        s2 == Store(s1, "x", ToU8(s1.x + 1))
    IN  IF s2.x >= __alcd_max_x
        THEN LET s3 == Store(Store(s2, "x", 0), "y", (s2.y + 1) % __alcd_max_y)
             IN  alcd_gotoxy(s3, s3.x, s3.y)
        ELSE s2

\* variant: alcd_gotoxy is called after every character
alcd_putc_alwaysGoto(s, _char) ==
    LET s0 == Called(s, "alcd_putc", <<_char>>)
        s1 == alcd_write(s0, ToU8(_char), __alcd_writeData)
        s2 == Store(s1, "x", ToU8(s1.x + 1))
        s3 == IF s2.x >= __alcd_max_x
              THEN Store(Store(s2, "x", 0), "y", ToU8(s2.y + 1))
              ELSE s2
    IN  alcd_gotoxy(s3, s3.x, s3.y)

alcd_putc(s, _char) ==
    LET s0 == Called(s, "alcd_putc", <<_char>>)
        s1 == alcd_write(s0, ToU8(_char), __alcd_writeData)
        s2 == Store(s1, "x", ToU8(s1.x + 1))
    IN  IF s2.x >= __alcd_max_x
        THEN LET s3 == Store(Store(s2, "x", 0), "y", ToU8(s2.y + 1))
             IN  alcd_gotoxy(s3, s3.x, s3.y)
        ELSE s2

---------------------------------------------------------------------------
(* alcd_puts, alcd.c 189-196: _str is the memory from the pointer on *)

\* the while loop
RECURSIVE alcd_puts_loop(_, _)
alcd_puts_loop(s, _str) ==
    IF Ready(s) /\ Head(_str) # 0
    THEN alcd_puts_loop(alcd_putc(s, Head(_str)), Tail(_str))
    ELSE s

\* variant: the loop starts at the second character
alcd_puts_skipFirst(s, _str) ==
    IF Head(_str) # 0
    THEN alcd_puts_loop(Called(s, "alcd_puts", _str), Tail(_str))
    ELSE Called(s, "alcd_puts", _str)

alcd_puts(s, _str) ==
    alcd_puts_loop(Called(s, "alcd_puts", _str), _str)

---------------------------------------------------------------------------
(* alcd_display, alcd.c 112-122 *)

\* variant: the cursor and blink bits are exchanged
alcd_display_swappedBits(s, _alcd_Display, _alcd_Cursor, _alcd_Blink) ==
    LET c0 == __alcd_Display_OFF
        c1 == bitChange(c0, 1, _alcd_Blink)
        c2 == bitChange(c1, 0, _alcd_Cursor)
        _cursorState == bitChange(c2, 2, _alcd_Display)
        s0 == Called(s, "alcd_display", <<BoolBit(_alcd_Display),
                                          BoolBit(_alcd_Cursor), BoolBit(_alcd_Blink)>>)
    IN  alcd_write(s0, _cursorState, __alcd_writeCmd)

alcd_display(s, _alcd_Display, _alcd_Cursor, _alcd_Blink) ==
    LET c0 == __alcd_Display_OFF
        c1 == bitChange(c0, 0, _alcd_Blink)
        c2 == bitChange(c1, 1, _alcd_Cursor)
        _cursorState == bitChange(c2, 2, _alcd_Display)
        s0 == Called(s, "alcd_display", <<BoolBit(_alcd_Display),
                                          BoolBit(_alcd_Cursor), BoolBit(_alcd_Blink)>>)
    IN  alcd_write(s0, _cursorState, __alcd_writeCmd)

---------------------------------------------------------------------------
(* alcd_customChar, alcd.c 62-77 *)

\* the for loop, from iteration _forCounter on
RECURSIVE alcd_customChar_loop(_, _, _, _)
alcd_customChar_loop(s, _forCounter, _CG_Add, _alcd_CGRAMdata) ==
    IF Ready(s) /\ _forCounter < 8
    THEN LET s1 == alcd_write(s, _CG_Add, __alcd_writeCmd)
             s2 == alcd_write(s1, Head(_alcd_CGRAMdata), __alcd_writeData)
         IN  alcd_customChar_loop(s2, _forCounter + 1, ToU8(_CG_Add + 1),
                                  Tail(_alcd_CGRAMdata))
    ELSE s

\* variant: the display address is not restored after the loop
alcd_customChar_noRestore(s, _alcd_CGRAMadd, _alcd_CGRAMdata) ==
    LET _CG_Add == ToU8(__alcd_CGRAM_Start + _alcd_CGRAMadd * 8)
        s0 == Called(s, "alcd_customChar", <<_alcd_CGRAMadd>> \o _alcd_CGRAMdata)
    IN  alcd_customChar_loop(s0, 0, _CG_Add, _alcd_CGRAMdata)

\* variant: the slot is shifted left by 2 instead of 3
alcd_customChar_shift2(s, _alcd_CGRAMadd, _alcd_CGRAMdata) ==
    LET _CG_Add == ToU8(__alcd_CGRAM_Start + _alcd_CGRAMadd * 4)
        s0 == Called(s, "alcd_customChar", <<_alcd_CGRAMadd>> \o _alcd_CGRAMdata)
        s1 == alcd_customChar_loop(s0, 0, _CG_Add, _alcd_CGRAMdata)
    IN  alcd_gotoxy(s1, s1.x, s1.y)

\* variant: the cursor is sent home instead of being restored
alcd_customChar_home(s, _alcd_CGRAMadd, _alcd_CGRAMdata) ==
    LET _CG_Add == ToU8(__alcd_CGRAM_Start + _alcd_CGRAMadd * 8)
        s0 == Called(s, "alcd_customChar", <<_alcd_CGRAMadd>> \o _alcd_CGRAMdata)
        s1 == alcd_customChar_loop(s0, 0, _CG_Add, _alcd_CGRAMdata)
    IN  alcd_gotoxy(s1, 0, 0)

alcd_customChar(s, _alcd_CGRAMadd, _alcd_CGRAMdata) ==
    LET _CG_Add == ToU8(__alcd_CGRAM_Start + _alcd_CGRAMadd * 8)
        s0 == Called(s, "alcd_customChar", <<_alcd_CGRAMadd>> \o _alcd_CGRAMdata)
        s1 == alcd_customChar_loop(s0, 0, _CG_Add, _alcd_CGRAMdata)
    IN  alcd_gotoxy(s1, s1.x, s1.y)

---------------------------------------------------------------------------
(* alcd_backLight, alcd.c 92-95 (built when a backlight line is configured) *)

alcd_backLight(s, _alcd_BL) ==
    Drive(Called(s, "alcd_backLight", <<BoolBit(_alcd_BL)>>),
          << HAL_GPIO_WritePin("BL", BoolBit(_alcd_BL)) >>)

---------------------------------------------------------------------------
(* alcd_init, alcd.c 302-335 *)

\* one step of the sequence: a command followed by the mode-set delay
alcd_init_step(s, cmd) ==
    Drive(alcd_write(s, cmd, __alcd_writeCmd), << delay_us(__alcd_delay_modeSet) >>)

\* variant: the repeated cursor-off step is left out
alcd_init_noCursorOff(s) ==
    LET sc == Called(s, "alcd_init", << >>)
        s0 == Store(sc, "init", FALSE)
        s1 == Drive(s0, << delay_us(__alcd_delay_powerON) >>)
        s2 == Drive(s1, << HAL_GPIO_WritePin("BL", GPIO_PIN_SET) >>)
        s3 == alcd_init_step(s2, __alcd_Mode_4bit_Step1)
        s4 == alcd_init_step(s3, __alcd_Mode_4bit_Step2)
        s5 == alcd_init_step(s4, __alcd_Mode_4bit_2line_5x8)
        s6 == alcd_init_step(s5, __alcd_Display_ON)
        s8 == alcd_init_step(s6, __alcd_Entry_Inc)
        s9 == alcd_init_step(s8, __alcd_Display_Clear)
    IN  Store(s9, "init", TRUE)

\* variant: the flag is set before the delay that follows the clear command
alcd_init_flagEarly(s) ==
    LET sc == Called(s, "alcd_init", << >>)
        s0 == Store(sc, "init", FALSE)
        s1 == Drive(s0, << delay_us(__alcd_delay_powerON) >>)
        s2 == Drive(s1, << HAL_GPIO_WritePin("BL", GPIO_PIN_SET) >>)
        s3 == alcd_init_step(s2, __alcd_Mode_4bit_Step1)
        s4 == alcd_init_step(s3, __alcd_Mode_4bit_Step2)
        s5 == alcd_init_step(s4, __alcd_Mode_4bit_2line_5x8)
        s6 == alcd_init_step(s5, __alcd_Display_ON)
        s7 == alcd_init_step(s6, __alcd_Cursor_OFF)
        s8 == alcd_init_step(s7, __alcd_Entry_Inc)
        s9 == Store(alcd_write(s8, __alcd_Display_Clear, __alcd_writeCmd), "init", TRUE)
    IN  Drive(s9, << delay_us(__alcd_delay_modeSet) >>)

\* variant: the tracked cursor is sent home with the display's
alcd_init_homeCursor(s) ==
    LET sc == Called(s, "alcd_init", << >>)
        s0 == Store(sc, "init", FALSE)
        s1 == Drive(s0, << delay_us(__alcd_delay_powerON) >>)
        s2 == Drive(s1, << HAL_GPIO_WritePin("BL", GPIO_PIN_SET) >>)
        s3 == alcd_init_step(s2, __alcd_Mode_4bit_Step1)
        s4 == alcd_init_step(s3, __alcd_Mode_4bit_Step2)
        s5 == alcd_init_step(s4, __alcd_Mode_4bit_2line_5x8)
        s6 == alcd_init_step(s5, __alcd_Display_ON)
        s7 == alcd_init_step(s6, __alcd_Cursor_OFF)
        s8 == alcd_init_step(s7, __alcd_Entry_Inc)
        s9 == alcd_init_step(s8, __alcd_Display_Clear)
    IN  Store(Store(Store(s9, "init", TRUE), "x", 0), "y", 0)

\* variant: the flag is not cleared on entry
alcd_init_keepFlag(s) ==
    LET s0 == Called(s, "alcd_init", << >>)
        s1 == Drive(s0, << delay_us(__alcd_delay_powerON) >>)
        s2 == Drive(s1, << HAL_GPIO_WritePin("BL", GPIO_PIN_SET) >>)
        s3 == alcd_init_step(s2, __alcd_Mode_4bit_Step1)
        s4 == alcd_init_step(s3, __alcd_Mode_4bit_Step2)
        s5 == alcd_init_step(s4, __alcd_Mode_4bit_2line_5x8)
        s6 == alcd_init_step(s5, __alcd_Display_ON)
        s7 == alcd_init_step(s6, __alcd_Cursor_OFF)
        s8 == alcd_init_step(s7, __alcd_Entry_Inc)
        s9 == alcd_init_step(s8, __alcd_Display_Clear)
    IN  Store(s9, "init", TRUE)

alcd_init(s) ==
    LET sc == Called(s, "alcd_init", << >>)
        s0 == Store(sc, "init", FALSE)
        s1 == Drive(s0, << delay_us(__alcd_delay_powerON) >>)
        s2 == Drive(s1, << HAL_GPIO_WritePin("BL", GPIO_PIN_SET) >>)
        s3 == alcd_init_step(s2, __alcd_Mode_4bit_Step1)
        s4 == alcd_init_step(s3, __alcd_Mode_4bit_Step2)
        s5 == alcd_init_step(s4, __alcd_Mode_4bit_2line_5x8)
        s6 == alcd_init_step(s5, __alcd_Display_ON)
        s7 == alcd_init_step(s6, __alcd_Cursor_OFF)
        s8 == alcd_init_step(s7, __alcd_Entry_Inc)
        s9 == alcd_init_step(s8, __alcd_Display_Clear)
    IN  Store(s9, "init", TRUE)

---------------------------------------------------------------------------
(* The display controller *)

\* after its internal reset the address counter is DDRAM address 0
PowerOnReset == [ram |-> "DDRAM", ac |-> 0]

\* The controller executes one assembled byte.  A data byte is stored at the
\* address counter, which then moves to the next address of the same memory
\* (7-bit DDRAM, 6-bit CGRAM address).  A command is decoded by its highest
\* set bit: bit 7 sets a DDRAM address, bit 6 a CGRAM address, 0x02/0x03
\* (home) and 0x01 (clear) set DDRAM address 0; function set, shift, display
\* control and entry mode leave the address counter alone.
Execute(l, tf) ==
    IF tf.mode = __alcd_writeData
    THEN [l EXCEPT !.ac = IF l.ram = "DDRAM" THEN (@ + 1) % 128 ELSE (@ + 1) % 64]
    ELSE IF tf.byte >= 128 THEN [ram |-> "DDRAM", ac |-> tf.byte - 128]
    ELSE IF tf.byte >= 64 THEN [ram |-> "CGRAM", ac |-> tf.byte - 64]
    ELSE IF tf.byte \in 1 .. 3 THEN [ram |-> "DDRAM", ac |-> 0]
    ELSE l

\* the bytes the controller assembles from the nibbles latched in b
Assembled(b) ==
    [k \in 1 .. (Len(b) \div 2) |->
        [mode |-> b[2 * k - 1].rs, byte |-> 16 * b[2 * k - 1].nib + b[2 * k].nib]]

RECURSIVE ExecuteAll(_, _, _)
ExecuteAll(l, tfs, k) ==
    IF k > Len(tfs) THEN l ELSE ExecuteAll(Execute(l, tfs[k]), tfs, k + 1)

\* the controller after it has received the nibbles latched in b
Controller(l, b) == ExecuteAll(l, Assembled(b), 1)

---------------------------------------------------------------------------
(* The state record threaded through a call *)

NoCall == [fn |-> "none", args |-> << >>,
           pre |-> [init |-> FALSE, x |-> 0, y |-> 0, en |-> 0]]

\* No public call is in progress and the record of the previous one is cleared
Idle == call.fn = "none"

Enter == [init |-> __alcd_initStatus,
          x    |-> __alcd_x_position,
          y    |-> __alcd_y_position,
          pins |-> pins,
          tr   |-> << >>,
          bus  |-> << >>,
          calls |-> << >>]

Return(s, fn, args) ==
    /\ Idle
    /\ __alcd_initStatus' = s.init
    /\ __alcd_x_position' = s.x
    /\ __alcd_y_position' = s.y
    /\ pins' = s.pins
    /\ trace' = s.tr
    /\ bus' = s.bus
    /\ calls' = s.calls
    /\ call' = [fn |-> fn, args |-> args,
                 pre |-> [init |-> __alcd_initStatus, x |-> __alcd_x_position,
                          y |-> __alcd_y_position, en |-> pins["EN"]]]
    /\ lcd' = lcd

---------------------------------------------------------------------------
(* Public calls *)

Init ==
    /\ __alcd_initStatus = FALSE
    /\ __alcd_x_position = 0
    /\ __alcd_y_position = 0
    /\ pins = [p \in PinNames |-> 0]
    /\ trace = << >>
    /\ bus = << >>
    /\ calls = << >>
    /\ call = NoCall
    /\ lcd = PowerOnReset

Call_gotoxy ==
    \E a \in GotoArgs :
        Return(alcd_gotoxy(Enter, a[1], a[2]), "gotoxy", a)

Call_clear == Return(alcd_clear(Enter), "clear", << >>)

Call_putc ==
    \E c \in Chars : Return(alcd_putc(Enter, c), "putc", <<c>>)

Call_write ==
    \E d \in WriteBytes, m \in {__alcd_writeCmd, __alcd_writeData} :
        Return(alcd_write(Enter, d, m), "write", <<d, m>>)

Call_puts ==
    \E str \in Strings : Return(alcd_puts(Enter, str), "puts", str)

Call_display ==
    \E d \in BOOLEAN, c \in BOOLEAN, b \in BOOLEAN :
        Return(alcd_display(Enter, d, c, b), "display",
               <<BoolBit(d), BoolBit(c), BoolBit(b)>>)

Call_customChar ==
    \E slot \in SlotArgs, pat \in Patterns :
        Return(alcd_customChar(Enter, slot, pat), "customChar", <<slot>> \o pat)

Call_backLight ==
    \E b \in BOOLEAN :
        Return(alcd_backLight(Enter, b), "backLight", <<BoolBit(b)>>)

Call_init == Return(alcd_init(Enter), "init", << >>)

\* The record of the returned call is dropped before the next call is made;
\* the driver's globals and the GPIO lines stay as the call left them.
Forget ==
    /\ ~Idle
    /\ trace' = << >>
    /\ bus' = << >>
    /\ calls' = << >>
    /\ call' = NoCall
    /\ UNCHANGED << __alcd_initStatus, __alcd_x_position, __alcd_y_position,
                    pins, lcd >>

Next ==
    \/ Forget
    \/ Call_init
    \/ Call_gotoxy
    \/ Call_clear
    \/ Call_putc
    \/ Call_puts
    \/ Call_write
    \/ Call_display
    \/ Call_customChar
    \/ Call_backLight

Spec == Init /\ [][Next]_vars

---------------------------------------------------------------------------
(* Glyph definition over the whole range of the slot argument *)

Glyph_customChar ==
    \E slot \in GlyphSlots, pat \in GlyphPatterns :
        Return(alcd_customChar(Enter, slot, pat), "customChar", <<slot>> \o pat)

NextGlyph ==
    \/ Forget
    \/ Call_init
    \/ Call_gotoxy
    \/ Glyph_customChar

SpecGlyph == Init /\ [][NextGlyph]_vars

---------------------------------------------------------------------------
(* The driver together with the display controller: the calls that follow
   the first alcd_init, without raw alcd_write and without the backlight *)

Shown(s, fn, args) ==
    /\ Idle
    /\ __alcd_initStatus' = s.init
    /\ __alcd_x_position' = s.x
    /\ __alcd_y_position' = s.y
    /\ pins' = s.pins
    /\ trace' = s.tr
    /\ bus' = s.bus
    /\ calls' = s.calls
    /\ call' = [fn |-> fn, args |-> args,
                 pre |-> [init |-> __alcd_initStatus, x |-> __alcd_x_position,
                          y |-> __alcd_y_position, en |-> pins["EN"]]]
    /\ lcd' = Controller(lcd, s.bus)

Lcd_init == Shown(alcd_init(Enter), "init", << >>)

Lcd_gotoxy ==
    /\ __alcd_initStatus
    /\ \E a \in GotoArgs : Shown(alcd_gotoxy(Enter, a[1], a[2]), "gotoxy", a)

Lcd_clear ==
    /\ __alcd_initStatus
    /\ Shown(alcd_clear(Enter), "clear", << >>)

Lcd_putc ==
    /\ __alcd_initStatus
    /\ \E c \in Chars : Shown(alcd_putc(Enter, c), "putc", <<c>>)

Lcd_puts ==
    /\ __alcd_initStatus
    /\ \E str \in Strings : Shown(alcd_puts(Enter, str), "puts", str)

Lcd_display ==
    /\ __alcd_initStatus
    /\ \E d \in BOOLEAN, c \in BOOLEAN, b \in BOOLEAN :
          Shown(alcd_display(Enter, d, c, b), "display",
                <<BoolBit(d), BoolBit(c), BoolBit(b)>>)

Lcd_customChar ==
    /\ __alcd_initStatus
    /\ \E slot \in SlotArgs \cap (0 .. 7), pat \in Patterns :
          Shown(alcd_customChar(Enter, slot, pat), "customChar", <<slot>> \o pat)

NextLcd ==
    \/ Forget
    \/ Lcd_init
    \/ Lcd_gotoxy
    \/ Lcd_clear
    \/ Lcd_putc
    \/ Lcd_puts
    \/ Lcd_display
    \/ Lcd_customChar

SpecLcd == Init /\ [][NextLcd]_vars

---------------------------------------------------------------------------
(* Two execution contexts without mutual exclusion: the main context calls
   alcd_write and may be interrupted between the two enable pulses by a
   handler that calls alcd_putc or alcd_write and runs to completion.  While
   the main context is suspended, call.fn is "write_high". *)

Suspended == call.fn = "write_high"

\* the state the suspended call has reached
Resume == [init |-> __alcd_initStatus,
           x    |-> __alcd_x_position,
           y    |-> __alcd_y_position,
           pins |-> pins,
           tr   |-> trace,
           bus  |-> bus,
           calls |-> calls]

Continue(s, fn) ==
    /\ Suspended
    /\ __alcd_initStatus' = s.init
    /\ __alcd_x_position' = s.x
    /\ __alcd_y_position' = s.y
    /\ pins' = s.pins
    /\ trace' = s.tr
    /\ bus' = s.bus
    /\ calls' = s.calls
    /\ call' = [call EXCEPT !.fn = fn]
    /\ lcd' = lcd

\* an interrupt handler has run during the last call
Preempted == \E k \in DOMAIN calls : calls[k].fn = "IRQ"

\* main context: alcd_write up to the end of its first pulse (alcd.c 241-259)
Main_write_high ==
    \E d \in WriteBytes, m \in {__alcd_writeCmd, __alcd_writeData} :
        Return(alcd_write_high(Called(Enter, "alcd_write", <<d, m>>), d, m),
               "write_high", <<d, m>>)

\* main context: the rest of alcd_write (alcd.c 263-278)
Main_write_low ==
    Continue(alcd_write_low(Resume, call.args[1]), "write")

\* interrupt context, at most once per alcd_write: alcd_putc
Isr_putc ==
    /\ ~Preempted
    /\ \E c \in Chars :
          Continue(alcd_putc(Called(Resume, "IRQ", <<c>>), c), "write_high")

\* interrupt context, at most once per alcd_write: alcd_write
Isr_write ==
    /\ ~Preempted
    /\ \E d \in WriteBytes, m \in {__alcd_writeCmd, __alcd_writeData} :
          Continue(alcd_write(Called(Resume, "IRQ", <<d, m>>), d, m), "write_high")

\* the record of a returned call is dropped
Main_forget ==
    /\ ~Suspended
    /\ Forget

NextIrq ==
    \/ Main_forget
    \/ Call_putc
    \/ Call_write
    \/ Main_write_high
    \/ Main_write_low
    \/ Isr_putc
    \/ Isr_write

SpecIrq == Init /\ [][NextIrq]_vars

---------------------------------------------------------------------------
(* What the display received during the last call *)

\* In 4-bit operation the display assembles two successive latched nibbles
\* into one byte, high nibble first; RS at the latch tells command from data.
Transfers ==
    [k \in 1 .. (Len(bus) \div 2) |->
        [mode |-> bus[2 * k - 1].rs,
         byte |-> 16 * bus[2 * k - 1].nib + bus[2 * k].nib]]

\* every byte is made of two nibbles latched with the same RS
WellFramed ==
    /\ Len(bus) % 2 = 0
    /\ \A k \in 1 .. (Len(bus) \div 2) : bus[2 * k - 1].rs = bus[2 * k].rs

Cmd(b) == [mode |-> __alcd_writeCmd, byte |-> b]
Data(b) == [mode |-> __alcd_writeData, byte |-> b]

\* positions in the trace where EN is driven low, in order
FallSet == { i \in DOMAIN trace : trace[i] = HAL_GPIO_WritePin("EN", GPIO_PIN_RESET) }
Falls ==
    [k \in 1 .. Cardinality(FallSet) |->
        CHOOSE i \in FallSet : Cardinality({ j \in FallSet : j <= i }) = k]

\* positions in the trace where EN is driven high
RiseSet == { i \in DOMAIN trace : trace[i] = HAL_GPIO_WritePin("EN", GPIO_PIN_SET) }

Cursor == << __alcd_x_position, __alcd_y_position >>

---------------------------------------------------------------------------
(* C1 .. C4 *)

\* C1: whenever a public call has returned, the tracked column is below 16
\* and the tracked row is below 2.
C1_CursorInRange ==
    /\ __alcd_x_position < __alcd_max_x
    /\ __alcd_y_position < __alcd_max_y

\* alcd_gotoxy(255, 255) has returned
C1_Witness ==
    /\ call.fn = "gotoxy"
    /\ call.args = << U8 - 1, U8 - 1 >>
    /\ call.pre.x = 15
    /\ call.pre.y = 1
    /\ Cursor = << 0, 0 >>

\* C2: alcd_gotoxy(col, row) with col < 16 and row < 2 leaves the cursor at
\* (col, row) and sends exactly one byte, a command, of value
\* (row = 0 ? 0x80 : 0xC0) + col.
C2_GotoxyInRange ==
    (call.fn = "gotoxy" /\ call.args[1] < 16 /\ call.args[2] < 2) =>
        /\ Cursor = call.args
        /\ WellFramed
        /\ Transfers = << Cmd((IF call.args[2] = 0 THEN 128 ELSE 192) + call.args[1]) >>

\* alcd_gotoxy(15, 1) has sent 0xCF
C2_Witness ==
    /\ call.fn = "gotoxy"
    /\ call.args = << 15, 1 >>
    /\ call.pre.x = 0
    /\ call.pre.y = 0
    /\ Transfers = << Cmd(207) >>

\* C3: alcd_gotoxy(col, row) with col >= 16 or row >= 2 sets both tracked
\* coordinates to 0 and sends the single command byte 0x80.
C3_GotoxyClamp ==
    (call.fn = "gotoxy" /\ (call.args[1] >= 16 \/ call.args[2] >= 2)) =>
        /\ Cursor = << 0, 0 >>
        /\ WellFramed
        /\ Transfers = << Cmd(128) >>

\* alcd_gotoxy(3, 2): only the row is out of range, and the column is reset too
C3_Witness ==
    /\ call.fn = "gotoxy"
    /\ call.args = << 3, 2 >>
    /\ call.pre.x = 7
    /\ call.pre.y = 1
    /\ Cursor = << 0, 0 >>

\* C4: alcd_init sends exactly the bytes 0x33 0x32 0x28 0x0C 0x0C 0x06 0x01,
\* in this order, all as commands, and the 5000 us delay follows the end of
\* each transfer directly, before any line is driven for the next one.
C4_InitSequence ==
    call.fn = "init" =>
        /\ WellFramed
        /\ Transfers = << Cmd(51), Cmd(50), Cmd(40), Cmd(12), Cmd(12), Cmd(6), Cmd(1) >>
        /\ Len(Falls) = 14
        /\ \A k \in 1 .. 7 :
              /\ Falls[2 * k] < Len(trace)
              /\ trace[Falls[2 * k] + 1] = delay_us(5000)

\* alcd_init has returned after being entered with the flag already set
C4_Witness ==
    /\ call.fn = "init"
    /\ call.pre.init
    /\ Len(Transfers) = 7
    /\ __alcd_initStatus

---------------------------------------------------------------------------
(* C5 .. C10 *)

\* the pulse delay in force during the last call: alcd_init clears the flag
\* on entry and sets it as its last statement
PulseDelay ==
    IF call.fn = "init" \/ ~call.pre.init THEN 5000 ELSE 50

\* C5 as stated: every enable pulse is followed by the delay, i.e. after each
\* falling edge of EN the call goes on to wait 5000 us (flag clear) or 50 us
\* (flag set).
C5_DelayFollowsPulse ==
    ~Idle =>
        \A i \in FallSet :
            \E j \in (i + 1) .. Len(trace) : trace[j] = delay_us(PulseDelay)

\* C5 amended: every enable pulse holds EN high for the delay: each write of
\* EN high is directly followed by a delay of 5000 us (flag clear) or 50 us
\* (flag set) and then by the write of EN low, in command and in data mode.
C5_DelayInsidePulse ==
    ~Idle =>
        /\ Cardinality(RiseSet) = Len(bus)
        /\ \A i \in RiseSet :
              /\ i + 2 <= Len(trace)
              /\ trace[i + 1] = delay_us(PulseDelay)
              /\ trace[i + 2] = HAL_GPIO_WritePin("EN", GPIO_PIN_RESET)

\* after initialisation a character has been sent with 50 us pulses
C5_Witness ==
    /\ call.fn = "putc"
    /\ call.pre.init
    /\ Len(bus) = 2
    /\ bus[1].rs = __alcd_writeData
    /\ \A i \in RiseSet : trace[i + 1] = delay_us(50)

IsWrite(c) == c.fn = "alcd_write"

\* C6: every alcd_write(byte, mode) produces exactly two enable pulses, the
\* first latching bits 7..4 and the second bits 3..0 on DB7..DB4, with RS
\* equal to mode during both; this holds for the public call and for every
\* alcd_write made inside another public call.
C6_TwoPulsesPerWrite ==
    /\ call.fn = "write" =>
          /\ call.pre.en = 0
          /\ Len(bus) = 2
          /\ bus[1] = [rs |-> call.args[2], nib |-> call.args[1] \div 16]
          /\ bus[2] = [rs |-> call.args[2], nib |-> call.args[1] % 16]
          /\ Cardinality(RiseSet) = 2
          /\ Len(Falls) = 2
          /\ \A i \in RiseSet : trace[i + 2] = HAL_GPIO_WritePin("EN", GPIO_PIN_RESET)
          /\ \A i \in DOMAIN trace :
                (trace[i].op = "pin" /\ trace[i].pin = "RS") =>
                    /\ trace[i].v = call.args[2]
                    /\ \A r \in RiseSet : i < r
    /\ ~Idle =>
          LET W == SelectSeq(calls, IsWrite)
          IN  /\ WellFramed
              /\ Len(Transfers) = Len(W)
              /\ \A k \in DOMAIN W :
                    Transfers[k] = [mode |-> W[k].args[2], byte |-> W[k].args[1]]

\* alcd_write(0x5A, data) has returned
C6_Witness ==
    /\ call.fn = "write"
    /\ call.args = << 90, __alcd_writeData >>
    /\ bus = << [rs |-> 1, nib |-> 5], [rs |-> 1, nib |-> 10] >>

\* n consecutive calls of alcd_putc(c)
RECURSIVE alcd_putc_times(_, _, _)
alcd_putc_times(s, c, n) ==
    IF Ready(s) /\ n > 0 THEN alcd_putc_times(alcd_putc(s, c), c, n - 1) ELSE s

\* C7: alcd_putc from (x, y) with x < 15 leaves (x + 1, y) and from (15, 0)
\* leaves (0, 1); from (0, 0), sixteen consecutive calls leave (0, 1) and a
\* seventeenth leaves (1, 1).
C7_PutcAdvance ==
    /\ (call.fn = "putc" /\ call.pre.x < 15) =>
          Cursor = << call.pre.x + 1, call.pre.y >>
    /\ (call.fn = "putc" /\ call.pre.x = 15 /\ call.pre.y = 0) =>
          Cursor = << 0, 1 >>
    /\ (Idle /\ Cursor = << 0, 0 >>) =>
          \A c \in Chars :
              LET s16 == alcd_putc_times(Enter, c, 16)
                  s17 == alcd_putc_times(Enter, c, 17)
              IN  /\ << s16.x, s16.y >> = << 0, 1 >>
                  /\ << s17.x, s17.y >> = << 1, 1 >>

\* alcd_putc at the end of row 0 has wrapped to row 1
C7_Witness ==
    /\ call.fn = "putc"
    /\ call.pre.x = 15
    /\ call.pre.y = 0
    /\ Cursor = << 0, 1 >>
    /\ Transfers = << Data(call.args[1]), Cmd(192) >>

\* C8: alcd_putc at (15, 1) leaves the cursor at (0, 0): it calls
\* alcd_gotoxy(0, 2), whose clamp resets both coordinates and sends 0x80.
C8_PutcLastCell ==
    (call.fn = "putc" /\ call.pre.x = 15 /\ call.pre.y = 1) =>
        /\ Cursor = << 0, 0 >>
        /\ WellFramed
        /\ Transfers = << Data(call.args[1]), Cmd(128) >>
        /\ \E k \in DOMAIN calls :
              calls[k] = [fn |-> "alcd_gotoxy", args |-> << 0, 2 >>]

\* alcd_putc at the last cell has returned with the cursor at the origin
C8_Witness ==
    /\ call.fn = "putc"
    /\ call.pre.x = 15
    /\ call.pre.y = 1
    /\ call.pre.init
    /\ Cursor = << 0, 0 >>

\* the DDRAM address command for the tracked cursor
CursorAddress ==
    Cmd((IF __alcd_y_position = 0 THEN 128 ELSE 192) + __alcd_x_position)

\* C9 as stated: every alcd_putc, wrap or not, sends the character as data
\* and then calls alcd_gotoxy for the new position, so that one address
\* command follows the character.
C9_PutcAlwaysGotoxy ==
    call.fn = "putc" =>
        /\ Transfers = << Data(call.args[1]), CursorAddress >>
        /\ \E k \in DOMAIN calls :
              calls[k] = [fn |-> "alcd_gotoxy", args |-> Cursor]

\* C9 amended: every alcd_putc sends the character as data first; only when
\* the column wraps (it was entered at column 15) does it then call
\* alcd_gotoxy(0, row + 1), which sends one address command for the new
\* position; otherwise it calls nothing else and sends no command.
C9_PutcGotoxyOnWrap ==
    call.fn = "putc" =>
        /\ WellFramed
        /\ IF call.pre.x = 15
           THEN /\ Transfers = << Data(call.args[1]), CursorAddress >>
                /\ calls = << [fn |-> "alcd_putc", args |-> call.args],
                              [fn |-> "alcd_write", args |-> << call.args[1], 1 >>],
                              [fn |-> "alcd_gotoxy", args |-> << 0, call.pre.y + 1 >>],
                              [fn |-> "alcd_write", args |-> << CursorAddress.byte, 0 >>] >>
           ELSE /\ Transfers = << Data(call.args[1]) >>
                /\ calls = << [fn |-> "alcd_putc", args |-> call.args],
                              [fn |-> "alcd_write", args |-> << call.args[1], 1 >>] >>

\* alcd_putc in the middle of a row has sent the character and nothing else
C9_Witness ==
    /\ call.fn = "putc"
    /\ call.pre.x = 3
    /\ Len(calls) = 2
    /\ Transfers = << Data(call.args[1]) >>

\* C10: from any cursor position and with the init flag clear or set,
\* alcd_clear sends exactly one byte, 0x01, as a command, and leaves the
\* tracked cursor at (0, 0).
C10_Clear ==
    call.fn = "clear" =>
        /\ WellFramed
        /\ Transfers = << Cmd(1) >>
        /\ Cursor = << 0, 0 >>

\* alcd_clear has returned after being entered at (15, 1) with the flag set
C10_Witness ==
    /\ call.fn = "clear"
    /\ call.pre.init
    /\ call.pre.x = 15
    /\ call.pre.y = 1
    /\ Cursor = << 0, 0 >>

---------------------------------------------------------------------------
(* C11 .. C15 *)

\* the alcd_write calls of the last public call, in order
Writes == SelectSeq(calls, IsWrite)
IsCmdWrite(c) == IsWrite(c) /\ c.args[2] = __alcd_writeCmd
IsDataWrite(c) == IsWrite(c) /\ c.args[2] = __alcd_writeData

\* C11 as stated: alcd_customChar(slot, pattern) with slot in 0..7 makes
\* exactly 16 alcd_write calls in total, 8 with a command and 8 with data, and
\* the tracked cursor after the call is the one before it.
C11_SixteenWrites ==
    (call.fn = "customChar" /\ call.args[1] \in 0 .. 7) =>
        /\ Len(Writes) = 16
        /\ Len(SelectSeq(calls, IsCmdWrite)) = 8
        /\ Len(SelectSeq(calls, IsDataWrite)) = 8
        /\ Cursor = << call.pre.x, call.pre.y >>

\* C11 amended: alcd_customChar(slot, pattern) with slot in 0..7 makes exactly
\* 17 alcd_write calls: 16 in its loop, alternately a command and a data
\* byte (8 of each), and one more command inside the alcd_gotoxy that ends it;
\* the tracked cursor after the call is the one before it.
C11_SeventeenWrites ==
    (call.fn = "customChar" /\ call.args[1] \in 0 .. 7) =>
        /\ Len(Writes) = 17
        /\ \A k \in 1 .. 8 :
              /\ Writes[2 * k - 1].args[2] = __alcd_writeCmd
              /\ Writes[2 * k].args[2] = __alcd_writeData
        /\ Writes[17].args[2] = __alcd_writeCmd
        /\ calls[Len(calls) - 1] =
              [fn |-> "alcd_gotoxy", args |-> << call.pre.x, call.pre.y >>]
        /\ calls[Len(calls)] = Writes[17]
        /\ Len(Transfers) = 17
        /\ Cursor = << call.pre.x, call.pre.y >>

\* alcd_customChar(3, pattern) has returned with the cursor where it was, (9, 1)
C11_Witness ==
    /\ call.fn = "customChar"
    /\ call.args[1] = 3
    /\ call.pre.x = 9
    /\ call.pre.y = 1
    /\ Cursor = << 9, 1 >>
    /\ Len(Writes) = 17

\* the byte the display receives from alcd_display(d, c, b)
DisplayByte(d, c, b) ==
    LET s == alcd_display(Enter, d, c, b)
    IN  16 * s.bus[1].nib + s.bus[2].nib

\* C12: alcd_display(display, cursor, blink) sends exactly one byte, a
\* command, of value 0x08 + 4*display + 2*cursor + blink; (true, false, false)
\* gives 0x0C and (true, true, true) gives 0x0F; the eight argument
\* combinations give eight distinct bytes, all in 0x08..0x0F.
C12_DisplayByte ==
    call.fn = "display" =>
        /\ WellFramed
        /\ Transfers = << Cmd(8 + 4 * call.args[1] + 2 * call.args[2] + call.args[3]) >>
        /\ call.args = << 1, 0, 0 >> => Transfers[1].byte = 12
        /\ call.args = << 1, 1, 1 >> =>
              /\ Transfers[1].byte = 15
              /\ LET all == { DisplayByte(d, c, b) : d, c, b \in BOOLEAN }
                 IN  /\ Cardinality(all) = 8
                     /\ all = 8 .. 15

\* alcd_display(false, true, false) has sent 0x0A
C12_Witness ==
    /\ call.fn = "display"
    /\ call.args = << 0, 1, 0 >>
    /\ Transfers = << Cmd(10) >>

\* alcd_putc on each byte of _str before the terminator, in order
RECURSIVE alcd_putc_each(_, _)
alcd_putc_each(s, _str) ==
    IF Ready(s) /\ Head(_str) # 0
    THEN alcd_putc_each(alcd_putc(s, Head(_str)), Tail(_str))
    ELSE s

\* the driver state the last call was entered with (the levels of the data
\* lines at entry are not kept: every nibble is driven before it is latched)
Entered ==
    [Enter EXCEPT !.init = call.pre.init, !.x = call.pre.x, !.y = call.pre.y]

IsData(tf) == tf.mode = __alcd_writeData

\* the bytes of a C string before its terminator, as data transfers
RECURSIVE DataOf(_)
DataOf(_str) ==
    IF Head(_str) = 0 THEN << >> ELSE << Data(Head(_str)) >> \o DataOf(Tail(_str))

\* C13: alcd_puts(s) returns for every null-terminated string and does what
\* alcd_putc does on each byte of s before the terminator, in order: the same
\* GPIO writes and delays, the same latched nibbles, the same final cursor
\* and flag; the data bytes sent are the bytes of s in order; an empty string
\* drives no line, sends nothing and leaves the cursor and the flag alone.
C13_PutsIsPutcSequence ==
    call.fn = "puts" =>
        LET p == alcd_putc_each(Entered, call.args)
        IN  /\ trace = p.tr
            /\ bus = p.bus
            /\ Cursor = << p.x, p.y >>
            /\ __alcd_initStatus = p.init
            /\ WellFramed
            /\ SelectSeq(Transfers, IsData) = DataOf(call.args)
            /\ Head(call.args) = 0 =>
                  /\ trace = << >>
                  /\ bus = << >>
                  /\ Cursor = << call.pre.x, call.pre.y >>
                  /\ __alcd_initStatus = call.pre.init

\* alcd_puts("Az") entered at (15, 0) has wrapped after the first character
C13_Witness ==
    /\ call.fn = "puts"
    /\ call.args = << 65, 122, 0 >>
    /\ call.pre.x = 15
    /\ call.pre.y = 0
    /\ Cursor = << 1, 1 >>
    /\ Transfers = << Data(65), Cmd(192), Data(122) >>

\* alcd_puts("") has returned
C13_WitnessEmpty ==
    /\ call.fn = "puts"
    /\ call.args = << 0 >>
    /\ trace = << >>

\* the driver and the lines as they are before the first call
AtReset ==
    [init |-> FALSE, x |-> 0, y |-> 0, pins |-> [p \in PinNames |-> 0],
     tr |-> << >>, bus |-> << >>, calls |-> << >>]

IsDelay(st) == st.op = "delay"

\* C14: alcd_init entered with the flag already set, from any cursor
\* position, makes the same GPIO writes and delays, in the same order, as the
\* first alcd_init after reset: its pulse delays are 5000 us and none is
\* 50 us, so the flag was cleared on entry; and it returns with the flag set.
C14_InitReruns ==
    call.fn = "init" =>
        /\ trace = alcd_init(AtReset).tr
        /\ \A i \in RiseSet : trace[i + 1] = delay_us(5000)
        /\ \A i \in DOMAIN trace : trace[i] # delay_us(50)
        /\ Len(SelectSeq(trace, IsDelay)) = 22
        /\ __alcd_initStatus

\* alcd_init has been run again with the flag set and the cursor at (7, 1)
C14_Witness ==
    /\ call.fn = "init"
    /\ call.pre.init
    /\ call.pre.x = 7
    /\ call.pre.y = 1
    /\ trace[1] = [op |-> "store", pin |-> "init", v |-> 0]
    /\ trace[2] = delay_us(50000)
    /\ __alcd_initStatus

\* the i-th address byte (i in 0..7) alcd_customChar sent as a command
GlyphAddress(i) == Transfers[2 * i + 1]

\* C15 as stated: for every slot >= 8 each of the 8 address bytes, the 8-bit
\* value 0x40 + slot*8 + i, is sent as a command and has bit 7 set.
C15_AliasesDDRAM ==
    (call.fn = "customChar" /\ call.args[1] >= 8) =>
        \A i \in 0 .. 7 :
            /\ GlyphAddress(i) = Cmd(ToU8(64 + call.args[1] * 8 + i))
            /\ bitCheck(GlyphAddress(i).byte, 7) = 1

\* C15 amended: for every slot >= 8 each of the 8 address bytes is the 8-bit
\* value 0x40 + slot*8 + i, sent as a command; it has bit 7 set exactly when
\* slot mod 32 is in 8..23.  For slot mod 32 in 24..31 the bytes are in
\* 0x00..0x3F (neither address bit is set), and for slot mod 32 in 0..7 they
\* are in 0x40..0x7F (CGRAM addresses again).
C15_AliasByPeriod ==
    (call.fn = "customChar" /\ call.args[1] >= 8) =>
        \A i \in 0 .. 7 :
            LET b == GlyphAddress(i).byte
                r == call.args[1] % 32
            IN  /\ GlyphAddress(i) = Cmd(ToU8(64 + call.args[1] * 8 + i))
                /\ bitCheck(b, 7) = 1 <=> r \in 8 .. 23
                /\ r \in 24 .. 31 => b \in 0 .. 63
                /\ r \in 0 .. 7 => b \in 64 .. 127

\* alcd_customChar(24, pattern) has sent 0x00..0x07 as its address commands
C15_Witness ==
    /\ call.fn = "customChar"
    /\ call.args[1] = 24
    /\ \A i \in 0 .. 7 : GlyphAddress(i) = Cmd(i)

---------------------------------------------------------------------------
(* C16 .. C20 *)

\* C16: the tracked cursor is changed by no call other than alcd_gotoxy,
\* alcd_clear, alcd_putc and alcd_puts: alcd_init, alcd_display, alcd_write,
\* alcd_backLight (and alcd_customChar) return with the cursor they were
\* entered with; and the init flag is changed by no call other than alcd_init.
C16_Frame ==
    ~Idle =>
        /\ call.fn \notin {"gotoxy", "clear", "putc", "puts"} =>
              Cursor = << call.pre.x, call.pre.y >>
        /\ call.fn # "init" => __alcd_initStatus = call.pre.init

\* alcd_init has been run again at (12, 1) and has left the cursor there
C16_Witness ==
    /\ call.fn = "init"
    /\ call.pre.init
    /\ call.pre.x = 12
    /\ call.pre.y = 1
    /\ Cursor = << 12, 1 >>
    /\ Transfers[7] = Cmd(__alcd_Display_Clear)

\* the DDRAM address of the cell of the tracked cursor
CursorCell == (IF __alcd_y_position = 0 THEN 0 ELSE 64) + __alcd_x_position

\* C17: once alcd_init has been called, after every call of alcd_init,
\* alcd_gotoxy, alcd_putc, alcd_puts, alcd_clear, alcd_display and
\* alcd_customChar (slot 0..7) has returned, the controller's address counter
\* is the DDRAM address of the cell of the tracked cursor.
C17_CounterAtCursor ==
    __alcd_initStatus => lcd = [ram |-> "DDRAM", ac |-> CursorCell]

\* C18: alcd_customChar(slot, pattern) with slot in 0..7 sends, for i = 0..7
\* in order, the command 0x40 + slot*8 + i, which lies in 0x40..0x7F,
\* directly followed by the data byte pattern[i]; after the eight pairs it
\* sends the DDRAM address command of the unchanged tracked cursor, and this
\* command is the last byte of the call.
C18_GlyphThenAddress ==
    (call.fn = "customChar" /\ call.args[1] \in 0 .. 7) =>
        /\ WellFramed
        /\ Len(Transfers) = 17
        /\ \A i \in 0 .. 7 :
              /\ Transfers[2 * i + 1] = Cmd(64 + call.args[1] * 8 + i)
              /\ Transfers[2 * i + 1].byte \in 64 .. 127
              /\ Transfers[2 * i + 2] = Data(call.args[i + 2])
        /\ Cursor = << call.pre.x, call.pre.y >>
        /\ Transfers[17] = CursorAddress
        /\ Transfers[17].byte >= 128

\* alcd_customChar(7, pattern) at (15, 1) has ended with the command 0xCF
C18_Witness ==
    /\ call.fn = "customChar"
    /\ call.args[1] = 7
    /\ call.pre.x = 15
    /\ call.pre.y = 1
    /\ Transfers[15] = Cmd(127)
    /\ Transfers[17] = Cmd(207)

LatchedLines == {"RS", "DB4", "DB5", "DB6", "DB7"}

\* positions in the trace where EN is driven
ENWrites == { i \in DOMAIN trace : trace[i].op = "pin" /\ trace[i].pin = "EN" }

\* statement i drives RS or a data line
DrivesLatched(i) == trace[i].op = "pin" /\ trace[i].pin \in LatchedLines

\* From statement i of the trace on, with EN at level en before it, no
\* statement drives RS or a data line while EN is high, and EN is low after
\* the last statement.  The trace is walked from one write of EN to the next.
RECURSIVE QuietWhileHigh(_, _)
QuietWhileHigh(i, en) ==
    LET later == { j \in ENWrites : j >= i }
    IN  IF later = {}
        THEN /\ en = GPIO_PIN_RESET
             /\ \A j \in i .. Len(trace) : ~DrivesLatched(j)
                                              \/ en = GPIO_PIN_RESET
        ELSE LET nxt == CHOOSE m \in later : \A j \in later : m <= j
             IN  /\ \A j \in i .. (nxt - 1) : ~DrivesLatched(j)
                                                \/ en = GPIO_PIN_RESET
                 /\ QuietWhileHigh(nxt + 1, trace[nxt].v)

\* C19: a public call entered with EN low returns with EN low, and during
\* the call RS and DB4..DB7 are driven only while EN is low: every write of
\* these lines comes before the rising edge of the pulse that latches it,
\* and between a rising edge and its falling edge nothing but the delay runs.
C19_LinesStableWhileHigh ==
    (~Idle /\ call.pre.en = GPIO_PIN_RESET) =>
        /\ pins["EN"] = GPIO_PIN_RESET
        /\ QuietWhileHigh(1, call.pre.en)
        /\ \A r \in RiseSet :
              /\ trace[r + 1].op = "delay"
              /\ trace[r + 2] = HAL_GPIO_WritePin("EN", GPIO_PIN_RESET)

\* alcd_puts("zA") entered with EN low has pulsed EN eight times and returned
\* with EN low
C19_Witness ==
    /\ call.fn = "puts"
    /\ call.args = << 122, 65, 0 >>
    /\ call.pre.en = GPIO_PIN_RESET
    /\ Cardinality(RiseSet) = 4
    /\ pins["EN"] = GPIO_PIN_RESET

\* the display has assembled a byte that is not the byte of the alcd_write
\* call at the same position: its two nibbles do not come from one call
Corrupted ==
    \E k \in DOMAIN Transfers :
        \/ k > Len(Writes)
        \/ Transfers[k] # [mode |-> Writes[k].args[2], byte |-> Writes[k].args[1]]

\* C20: a byte stream in which the display pairs the high nibble of one byte
\* with a nibble of another byte is reachable when an interrupt handler that
\* calls alcd_putc or alcd_write runs between the two enable pulses of a
\* main-context alcd_write, and only then: it occurs in no call that was
\* not interrupted.
C20_CorruptOnlyIfPreempted ==
    Corrupted => Preempted

\* alcd_write(0x5A, command) was interrupted by alcd_putc('A') and has
\* returned: the display has assembled 0x54 and 0x1A
C20_Witness ==
    /\ call.fn = "write"
    /\ call.args = << 90, __alcd_writeCmd >>
    /\ Writes = << [fn |-> "alcd_write", args |-> << 90, 0 >>],
                   [fn |-> "alcd_write", args |-> << 65, 1 >>] >>
    /\ bus = << [rs |-> 0, nib |-> 5], [rs |-> 1, nib |-> 4],
                [rs |-> 1, nib |-> 1], [rs |-> 1, nib |-> 10] >>
    /\ Corrupted

---------------------------------------------------------------------------
(* C21 .. C22 *)

\* positions in the trace where the init flag is assigned
FlagStores == { i \in DOMAIN trace : trace[i].op = "store" /\ trace[i].pin = "init" }

\* positions in the trace where a GPIO line is driven
PinWrites == { i \in DOMAIN trace : trace[i].op = "pin" }

\* C21: alcd_init first clears the init flag, then waits 50000 us, and only
\* then writes a GPIO line; the first line written is the backlight, driven
\* high before the first enable pulse; the flag is assigned true as the last
\* statement, after the transfer of the clear command 0x01 and the 5000 us
\* delay that follows it, so the flag is false during all seven transfers
\* (every pulse delay is 5000 us).
C21_InitOrder ==
    call.fn = "init" =>
        LET n == Len(trace)
        IN  /\ trace[1] = [op |-> "store", pin |-> "init", v |-> 0]
            /\ trace[2] = delay_us(50000)
            /\ trace[3] = HAL_GPIO_WritePin("BL", GPIO_PIN_SET)
            /\ \A i \in PinWrites : i >= 3
            /\ \A i \in RiseSet : i > 3 /\ trace[i + 1] = delay_us(5000)
            /\ Transfers[7] = Cmd(1)
            /\ Len(Falls) = 14
            /\ Falls[14] = n - 2
            /\ trace[n - 1] = delay_us(5000)
            /\ trace[n] = [op |-> "store", pin |-> "init", v |-> 1]
            /\ FlagStores = {1, n}

\* alcd_init, entered with the flag set, has driven the backlight high as
\* its first GPIO write and has assigned the flag as its last statement
C21_Witness ==
    /\ call.fn = "init"
    /\ call.pre.init
    /\ trace[3] = HAL_GPIO_WritePin("BL", GPIO_PIN_SET)
    /\ pins["BL"] = GPIO_PIN_SET
    /\ trace[Len(trace)].op = "store"

\* the last call waited 5000 us at some point
WaitsModeSet == \E i \in DOMAIN trace : trace[i] = delay_us(5000)

\* the statements of alcd_clear in order: the complete transfer of 0x01 with
\* both enable pulses, then the stores of 0 to the column and to the row,
\* then one delay of 5000 us, whatever the init flag
ClearOrder ==
    LET n == Len(trace)
    IN  /\ Transfers = << Cmd(1) >>
        /\ Len(Falls) = 2
        /\ Falls[2] = n - 3
        /\ trace[n - 2] = [op |-> "store", pin |-> "x", v |-> 0]
        /\ trace[n - 1] = [op |-> "store", pin |-> "y", v |-> 0]
        /\ trace[n] = delay_us(5000)
        /\ \A i \in RiseSet : trace[i + 1] = delay_us(PulseDelay)

\* C22 as stated: alcd_clear runs in the order above, and once the flag is
\* set alcd_clear is the only public call whose trace contains a wait of
\* 5000 us.
C22_ClearOnlyLongWait ==
    /\ call.fn = "clear" => ClearOrder
    /\ (~Idle /\ call.pre.init /\ WaitsModeSet) => call.fn = "clear"

\* C22 amended: alcd_clear runs in the order above, and once the flag is set
\* the only public calls whose trace contains a wait of 5000 us are
\* alcd_clear, with exactly one such wait, after its two 50 us pulses, and
\* alcd_init, which clears the flag again.
C22_ClearAndInitLongWait ==
    /\ call.fn = "clear" => ClearOrder
    /\ (~Idle /\ call.pre.init /\ WaitsModeSet) => call.fn \in {"clear", "init"}
    /\ (call.fn = "clear" /\ call.pre.init) =>
          { i \in DOMAIN trace : trace[i] = delay_us(5000) } = { Len(trace) }
    /\ (call.fn = "init" /\ call.pre.init) => WaitsModeSet

\* alcd_clear, entered at (9, 1) with the flag set, has pulsed EN twice for
\* 50 us, reset the cursor and then waited 5000 us
C22_Witness ==
    /\ call.fn = "clear"
    /\ call.pre.init
    /\ call.pre.x = 9
    /\ call.pre.y = 1
    /\ \A i \in RiseSet : trace[i + 1] = delay_us(50)
    /\ trace[Len(trace)] = delay_us(5000)
    /\ Cursor = << 0, 0 >>

===========================================================================
